---- MODULE Spec2Model ----
(***************************************************************************)
(* A model of pwnlib/rop.py: the gadget catalog built by ROP.__load, the   *)
(* gadget search (ROP.search, ROP.__getattr__), the call list and its      *)
(* two-stage encoder (ROP.call, ROP.raw, ROP.chain, ROP.clear, ROP.flush)  *)
(* and the on-disk gadget cache (ROP.__cache_load, ROP.__cache_save).      *)
(*                                                                         *)
(* Byte strings are sequences of numbers 0..255.  TLC's integers are 32    *)
(* bits wide, so two literals of the source that do not fit are scaled     *)
(* down: LeaveMove stands for 9999999999 and DeadBeef for 0xdeadbeef.      *)
(* Every address, immediate and argument of the model is far below them.   *)
(***************************************************************************)
EXTENDS Integers, Sequences, FiniteSets, TLC

VARIABLES align, gadgets, order, pivots, _chain, address,
          lastOp, found, out, err, cache, content

vars == <<align, gadgets, order, pivots, _chain, address,
          lastOp, found, out, err, cache, content>>

(***************************************************************************)
(* Bounds of the model.                                                    *)
(***************************************************************************)
MaxGadgets == 2
MaxCalls == 3
MaxElfs == 2
MaxContent == 1

(***************************************************************************)
(* Program constants.                                                      *)
(***************************************************************************)
LeaveMove == 99999
DeadBeef == 48879
RetCount == 4
PadChar == 88
RawPadChar == 36
FillByte == 0

Aligns == {4, 8}

\* Python's None, and the empty dict / empty string results.
None == <<>>

EmptyDict == [x \in {} |-> 0]

RECURSIVE SeqsUpTo(_, _)
SeqsUpTo(S, n) ==
    IF n = 0 THEN {<<>>}
    ELSE LET shorter == SeqsUpTo(S, n - 1)
         IN  shorter \cup {Append(s, x) : s \in {t \in shorter : Len(t) = n - 1}, x \in S}

Perms(S) == {s \in [1..Cardinality(S) -> S] : \A i, j \in 1..Cardinality(S) : s[i] = s[j] => i = j}

RECURSIVE Flatten(_)
Flatten(ss) == IF ss = <<>> THEN <<>> ELSE Head(ss) \o Flatten(Tail(ss))

(***************************************************************************)
(* Instructions of the accepted grammar (the regular expressions pop, add, *)
(* ret and leave of __load), and one shape outside of it.                  *)
(***************************************************************************)
Pop(r) == [op |-> "pop", reg |-> r, imm |-> 0]
Add(n) == [op |-> "add", reg |-> "", imm |-> n]
Ret == [op |-> "ret", reg |-> "", imm |-> 0]
Leave == [op |-> "leave", reg |-> "", imm |-> 0]
Mov == [op |-> "mov", reg |-> "", imm |-> 0]

valid(insn) == insn.op \in {"pop", "add", "ret", "leave"}

frame_regs(al) == IF al = 4 THEN <<"ebp", "esp">> ELSE <<"rbp", "rsp">>

AxReg(al) == IF al = 4 THEN "eax" ELSE "rax"

BpReg(al) == IF al = 4 THEN "ebp" ELSE "rbp"

\* registers written by a gadget, in order (the inner loop of __load)
RECURSIVE GadgetRegs(_, _)
GadgetRegs(insns, al) ==
    IF insns = <<>> THEN <<>>
    ELSE LET insn == Head(insns)
             rest == GadgetRegs(Tail(insns), al)
         IN  IF insn.op = "pop" THEN <<insn.reg>> \o rest
             ELSE IF insn.op = "leave" THEN frame_regs(al) \o rest
             ELSE rest

\* stack displacement of a gadget (sp_move of __load)
RECURSIVE GadgetMove(_, _)
GadgetMove(insns, al) ==
    IF insns = <<>> THEN 0
    ELSE LET insn == Head(insns)
             rest == GadgetMove(Tail(insns), al)
         IN  IF insn.op = "pop" THEN al + rest
             ELSE IF insn.op = "add" THEN insn.imm + rest
             ELSE IF insn.op = "ret" THEN al + rest
             ELSE IF insn.op = "leave" THEN LeaveMove + rest
             ELSE rest

SeqToSet(s) == {s[i] : i \in DOMAIN s}

\* "Don't use 'pop ebp' or 'pop esp' for pivots"
IsPivot(regs) == SeqToSet(regs) \cap {"rbp", "ebp", "rsp", "esp"} = {}

\* self.gadgets of __load: address -> {'insns', 'regs', 'move'}
Classify(raw, al) ==
    [a \in DOMAIN raw |->
        [insns |-> raw[a], regs |-> GadgetRegs(raw[a], al), move |-> GadgetMove(raw[a], al)]]

\* self.pivots of __load: the entry of a displacement is overwritten by every
\* later gadget of the same displacement, in the iteration order ord
RECURSIVE BuildPivots(_, _)
BuildPivots(g, ord) ==
    IF ord = <<>> THEN EmptyDict
    ELSE LET n == Len(ord)
             a == ord[n]
             p == BuildPivots(g, SubSeq(ord, 1, n - 1))
         IN  IF IsPivot(g[a].regs)
             THEN [s \in DOMAIN p \cup {g[a].move} |-> IF s = g[a].move THEN a ELSE p[s]]
             ELSE p

(***************************************************************************)
(* ROP.search                                                              *)
(***************************************************************************)
\* the eligibility test of the loop: "Regs match exactly, move is a minimum"
MatchesAnyRegsIfEmpty(i, move, regs) == (regs = <<>> \/ i.regs = regs) /\ move <= i.move

Matches(i, move, regs) == i.regs = regs /\ move <= i.move

\* "Closer": the candidate replaces the closest match seen so far
CloserGreater(i, closest) == i.move > closest[2].move

Closer(i, closest) == i.move < closest[2].move

RECURSIVE SearchLoop(_, _, _, _, _)
SearchLoop(g, ord, move, regs, closest) ==
    IF ord = <<>> THEN closest
    ELSE LET a == Head(ord)
             i == g[a]
         IN  IF ~Matches(i, move, regs) THEN SearchLoop(g, Tail(ord), move, regs, closest)
             ELSE IF move = i.move THEN <<a, i>>
             ELSE IF closest = None THEN SearchLoop(g, Tail(ord), move, regs, <<a, i>>)
             ELSE IF Closer(i, closest) THEN SearchLoop(g, Tail(ord), move, regs, <<a, i>>)
             ELSE SearchLoop(g, Tail(ord), move, regs, closest)

search(g, ord, al, move, regs) ==
    LET m == IF regs # <<>> /\ move = 0 THEN Len(regs) * al ELSE move
    IN  SearchLoop(g, ord, m, regs, None)

(***************************************************************************)
(* ROP.__getattr__: attr is given by its '_'-separated parts; the parts of *)
(* a 'ret_K' are <<"ret", K>>.                                             *)
(***************************************************************************)
RetDefault(al) == RetCount

getattr(g, ord, al, parts) ==
    IF parts[1] = "ret"
    THEN LET count == IF Len(parts) > 1 THEN parts[2] ELSE RetDefault(al)
         IN  search(g, ord, al, count, <<>>)
    ELSE search(g, ord, al, 0, parts)

(***************************************************************************)
(* Packing (pwnlib.util.packing, pwnlib.util.lists): fixed-width           *)
(* little-endian words.                                                    *)
(***************************************************************************)
RECURSIVE PackBytes(_, _)
PackBytes(x, n) == IF n = 0 THEN <<>> ELSE <<x % 256>> \o PackBytes(x \div 256, n - 1)

pack(x, al) == PackBytes(x, al)

RECURSIVE unpack(_)
unpack(s) == IF s = <<>> THEN 0 ELSE s[1] + 256 * unpack(Tail(s))

\* a deferred value is a structure of machine words, packed one after the other
RECURSIVE recursive_pack(_, _)
recursive_pack(v, al) == IF v = <<>> THEN <<>> ELSE pack(Head(v), al) \o recursive_pack(Tail(v), al)

\* lists.group(n, data, 'fill', fill): chunks of n bytes, the last one filled up
RECURSIVE group(_, _, _)
group(n, data, fill) ==
    IF data = <<>> THEN <<>>
    ELSE IF Len(data) >= n THEN <<SubSeq(data, 1, n)>> \o group(n, SubSeq(data, n + 1, Len(data)), fill)
    ELSE <<data \o [k \in 1..(n - Len(data)) |-> fill]>>

(***************************************************************************)
(* ROP.resolve: a resolvable is a name or an integer.                      *)
(***************************************************************************)
SymName(name) == [kind |-> "str", name |-> name, val |-> 0]

IntVal(v) == [kind |-> "int", name |-> "", val |-> v]

\* elf.symbols of the loaded binaries, in load order
elfs == << ("read" :> 513), ("read" :> 769 @@ "system" :> 1025) >>

RECURSIVE ResolveIn(_, _)
ResolveIn(es, name) ==
    IF es = <<>> THEN None
    ELSE IF name \in DOMAIN Head(es) THEN <<Head(es)[name]>>
    ELSE ResolveIn(Tail(es), name)

\* None, or <<address>>
resolve(resolvable) ==
    IF resolvable.kind = "str" THEN ResolveIn(elfs, resolvable.name)
    ELSE <<resolvable.val>>

(***************************************************************************)
(* ROP.call                                                                *)
(***************************************************************************)
IntArg(v) == [kind |-> "int", val |-> v, blob |-> <<>>]

BlobArg(b) == [kind |-> "blob", val |-> 0, blob |-> b]

Min(S) == CHOOSE x \in S : \A y \in S : x <= y

Max(S) == CHOOSE x \in S : \A y \in S : x >= y

FindPivotLargest(piv, need) ==
    LET big == {s \in DOMAIN piv : s >= need}
    IN  IF big = {} THEN <<0, 0>> ELSE <<piv[Max(big)], Max(big)>>

\* the scan of sorted(self.pivots.items()): <<stackfix_addr, stackfix_size>>
FindPivot(piv, need) ==
    LET big == {s \in DOMAIN piv : s >= need}
    IN  IF big = {} THEN <<0, 0>> ELSE <<piv[Min(big)], Min(big)>>

\* the call list after call(resolvable, arguments), and the error it raised
call(c, piv, al, resolvable, arguments) ==
    LET addr == resolve(resolvable)
        stackfix_need == (1 + Len(arguments)) * al
        fix == FindPivot(piv, stackfix_need)
        d == [orig |-> resolvable, addr |-> addr[1], args |-> arguments,
              retaddr |-> fix[1], retsize |-> fix[2], pad |-> fix[2] - stackfix_need]
    IN  IF addr = None THEN [err |-> "UnresolvedSymbol", chain |-> c]
        ELSE IF fix[1] = 0 /\ Len(arguments) # 0 THEN [err |-> "NoStackFixupGadget", chain |-> c]
        ELSE [err |-> "", chain |-> Append(c, d)]

\* ROP.raw: one argument-less call per group of the data
RECURSIVE RawCalls(_, _, _, _)
RawCalls(c, piv, al, groups) ==
    IF groups = <<>> THEN [err |-> "", chain |-> c]
    ELSE LET r == call(c, piv, al, IntVal(unpack(Head(groups))), <<>>)
         IN  IF r.err # "" THEN r ELSE RawCalls(r.chain, piv, al, Tail(groups))

raw(c, piv, al, data) == RawCalls(c, piv, al, group(al, data, FillByte))

(***************************************************************************)
(* ROP.chain                                                               *)
(***************************************************************************)
TrailingOptInPlace(c) ==
    LET n == Len(c)
        w == IF Len(c[n].args) # 0
             THEN [c EXCEPT ![n].retaddr = DeadBeef, ![n].pad = 0]
             ELSE IF 2 <= n /\ Len(c[n].args) = 0 /\ Len(c[n - 1].args) # 0
             THEN SubSeq([c EXCEPT ![n - 1].retaddr = c[n].addr, ![n - 1].pad = 0], 1, n - 1)
             ELSE c
    IN  [chain |-> w, self |-> w]

TrailingOptKeepsPad(c) ==
    LET n == Len(c)
    IN  [chain |->
            IF Len(c[n].args) # 0
            THEN [c EXCEPT ![n].retaddr = DeadBeef]
            ELSE IF 2 <= n /\ Len(c[n].args) = 0 /\ Len(c[n - 1].args) # 0
            THEN SubSeq([c EXCEPT ![n - 1].retaddr = c[n].addr], 1, n - 1)
            ELSE c,
         self |-> c]

\* the working copy after the last-call rewrite, and self._chain, which the
\* copies of the records leave as it was
TrailingOpt(c) ==
    LET n == Len(c)
    IN  [chain |->
            IF Len(c[n].args) # 0
            THEN [c EXCEPT ![n].retaddr = DeadBeef, ![n].pad = 0]
            ELSE IF 2 <= n /\ Len(c[n].args) = 0 /\ Len(c[n - 1].args) # 0
            THEN SubSeq([c EXCEPT ![n - 1].retaddr = c[n].addr, ![n - 1].pad = 0], 1, n - 1)
            ELSE c,
         self |-> c]

DataSlot(bytes) == [kind |-> "data", data |-> bytes, id |-> 0]

IdSlot(id) == [kind |-> "id", data |-> <<>>, id |-> id]

PadExact(pad, al) == IF pad <= 0 THEN <<>> ELSE <<DataSlot([k \in 1..pad |-> PadChar])>>

\* for i in range(0, link['pad'], self.align): slots.append(self.align * 'X')
PadSlots(pad, al) ==
    LET count == IF pad <= 0 THEN 0 ELSE (pad + al - 1) \div al
    IN  [k \in 1..count |-> DataSlot([j \in 1..al |-> PadChar])]

\* the slots of the arguments; ID is the next free placeholder
RECURSIVE ArgSlots(_, _, _)
ArgSlots(args, al, ID) ==
    IF args = <<>> THEN <<>>
    ELSE IF Head(args).kind = "int"
    THEN <<DataSlot(pack(Head(args).val, al))>> \o ArgSlots(Tail(args), al, ID)
    ELSE <<IdSlot(ID)>> \o ArgSlots(Tail(args), al, ID + 1)

Blobs(args) == SelectSeq(args, LAMBDA a : a.kind # "int")

\* Stage 1: the slots and the deferred values of the links
RECURSIVE Stage1(_, _, _)
Stage1(links, al, ID) ==
    IF links = <<>> THEN [slots |-> <<>>, deferred |-> <<>>]
    ELSE LET link == Head(links)
             blobs == IF Len(link.args) = 0 THEN <<>> ELSE Blobs(link.args)
             rest == Stage1(Tail(links), al, ID + Len(blobs))
             mine == IF Len(link.args) = 0 THEN <<DataSlot(pack(link.addr, al))>>
                     ELSE <<DataSlot(pack(link.addr, al)), DataSlot(pack(link.retaddr, al))>>
                          \o ArgSlots(link.args, al, ID) \o PadSlots(link.pad, al)
         IN  [slots |-> mine \o rest.slots,
              deferred |-> [k \in 1..Len(blobs) |-> blobs[k].blob] \o rest.deferred]

\* Stage 2: placeholders become addresses behind the slots, their data is appended
RECURSIVE Stage2(_, _, _, _, _, _)
Stage2(slots, deferred, base, length, rawdata, al) ==
    IF slots = <<>> THEN rawdata
    ELSE LET slot == Head(slots)
         IN  IF slot.kind # "id"
             THEN slot.data \o Stage2(Tail(slots), deferred, base, length, rawdata, al)
             ELSE pack(base + length + Len(rawdata), al)
                  \o Stage2(Tail(slots), deferred, base, length,
                            rawdata \o recursive_pack(deferred[slot.id + 1], al), al)

NeedsBase(links) == \E k \in DOMAIN links : Len(links[k].args) # 0 /\ Blobs(links[k].args) # <<>>

\* chain(): the bytes returned or the error raised, and self._chain afterwards
chain(c, addr, al) ==
    IF Len(c) = 0 THEN [err |-> "", out |-> <<>>, self |-> c]
    ELSE LET t == TrailingOpt(c)
             s1 == Stage1(t.chain, al, 0)
             length == Len(s1.slots) * al
             rawdata == [k \in 1..(length % al) |-> RawPadChar]
         IN  IF NeedsBase(t.chain) /\ addr = 0
             THEN [err |-> "MissingBaseAddress", out |-> <<>>, self |-> t.self]
             ELSE [err |-> "", out |-> Stage2(s1.slots, s1.deferred, addr, length, rawdata, al),
                   self |-> t.self]

(***************************************************************************)
(* The gadget cache and ROP.__load.  A binary is known by its base name;   *)
(* content[b] stands for the digest of its bytes.                          *)
(***************************************************************************)
Binaries == {"libc", "prog", "stub"}

elfclass(b) == IF b = "prog" THEN 32 ELSE 64

\* elf.load_addr and elf.address of the binaries
load_addr(b) == 16

elf_address(b) == IF b = "libc" THEN 48 ELSE 16

\* what the gadget miner finds in a binary: vaddr -> instructions
MinerGadgets(b, digest) ==
    IF b = "libc"
    THEN (16 + digest :> <<Pop("rax"), Ret>>) @@ (32 :> <<Mov, Ret>>)
    ELSE IF b = "prog"
    THEN (16 :> <<Ret>>) @@ (24 + digest :> <<Add(4), Mov>>)
    ELSE (16 :> <<Mov, Ret>>)

\* __get_cachefile_name: base name, digest and address
CacheKey(b, cont) == <<b, cont[b], elf_address(b)>>

\* __cache_load: the payload of the entry, or None when there is no entry
cache_load(files, b, cont) ==
    IF CacheKey(b, cont) \in DOMAIN files THEN <<files[CacheKey(b, cont)]>> ELSE None

\* `if cache:` holds of a payload that is not the empty dict
Truthy(c) == c # None /\ DOMAIN c[1] # {}

\* elf_gadgets: the mined gadgets whose instructions are all valid, rebased
Mine(b, digest) ==
    LET m == MinerGadgets(b, digest)
        ok == {v \in DOMAIN m : \A k \in DOMAIN m[v] : valid(m[v][k])}
    IN  [a \in {v - load_addr(b) + elf_address(b) : v \in ok} |-> m[a + load_addr(b) - elf_address(b)]]

\* dict.update
Update(d, e) == [a \in DOMAIN d \cup DOMAIN e |-> IF a \in DOMAIN e THEN e[a] ELSE d[a]]

\* the loop of __load over self.elfs: the merged gadgets, the cache files
\* afterwards, and the binaries that were mined and saved on the way
RECURSIVE LoadElfs(_, _, _)
LoadElfs(es, files, cont) ==
    IF es = <<>> THEN [gadgets |-> EmptyDict, files |-> files, mined |-> <<>>, saved |-> <<>>]
    ELSE LET n == Len(es)
             b == es[n]
             before == LoadElfs(SubSeq(es, 1, n - 1), files, cont)
             c == cache_load(before.files, b, cont)
             elf_gadgets == Mine(b, cont[b])
         IN  IF Truthy(c)
             THEN [before EXCEPT !.gadgets = Update(before.gadgets, c[1])]
             ELSE [gadgets |-> Update(before.gadgets, elf_gadgets),
                   files |-> Update(before.files, (CacheKey(b, cont) :> elf_gadgets)),
                   mined |-> Append(before.mined, b),
                   saved |-> Append(before.saved, b)]

\* self.align = max(e.elfclass for e in elfs)/8
AlignOf(es) == Max({elfclass(es[k]) : k \in DOMAIN es}) \div 8

(***************************************************************************)
(* Inputs.                                                                 *)
(***************************************************************************)
\* Gadget addresses are not 0.  The immediates of add are not negative: a
\* stackDelta is an unsigned number.  A gadget need not end in ret: valid()
\* asks only that every one of its instructions is of the grammar.
SearchAddrs == {16 * k : k \in 1..MaxGadgets}

ChainAddrs == {16, 32}

SearchPool(al) ==
    {<<Ret>>, <<Pop(AxReg(al)), Ret>>, <<Pop(BpReg(al)), Ret>>,
     <<Pop(AxReg(al)), Pop(BpReg(al)), Ret>>, <<Add(4), Ret>>, <<Leave, Ret>>,
     <<Pop(AxReg(al)), Add(4), Ret>>, <<Pop(AxReg(al))>>, <<Add(4)>>}

ChainPool(al) ==
    {<<Pop(AxReg(al)), Ret>>, <<Pop(AxReg(al)), Pop(AxReg(al)), Ret>>,
     <<Add(10), Pop(AxReg(al)), Ret>>}

Catalogs(addrs, pool) == UNION {[D -> pool] : D \in SUBSET addrs}

SearchMoves == {0, 4, 8, 12}

SearchRegs(al) ==
    {<<>>, <<AxReg(al)>>, <<BpReg(al)>>, <<AxReg(al), BpReg(al)>>, <<BpReg(al), AxReg(al)>>,
     frame_regs(al)}

AttrParts(al) == {<<"ret">>} \cup {<<"ret", k>> : k \in SearchMoves \ {0}}
                 \cup (SearchRegs(al) \ {<<>>})

Resolvables == {SymName("read"), SymName("nosuch")}

ArgValues == {IntArg(5), BlobArg(<<7, 9>>)}

ArgLists == {<<>>} \cup {<<a>> : a \in ArgValues} \cup {<<IntArg(5), BlobArg(<<7, 9>>)>>}

\* nine bytes: three groups of four or two groups of eight, the last one filled
RawData == {<<1, 0, 0, 0, 0, 0, 0, 0, 2>>}

BaseAddrs == {4096}

ElfLists == SeqsUpTo(Binaries, MaxElfs) \ {<<>>}

InitContent == [b \in Binaries |-> 0]

(***************************************************************************)
(* The state after ROP(elfs): the catalog is loaded, the call list empty.  *)
(***************************************************************************)
Loaded(al, rawg, ord) ==
    /\ align = al
    /\ gadgets = Classify(rawg, al)
    /\ order = ord
    /\ pivots = BuildPivots(Classify(rawg, al), ord)
    /\ _chain = <<>>
    /\ address = 0
    /\ found = None
    /\ out = <<>>
    /\ err = ""

InitSearch ==
    /\ \E al \in Aligns : \E rawg \in Catalogs(SearchAddrs, SearchPool(al)) : \E ord \in Perms(DOMAIN rawg) :
          Loaded(al, rawg, ord)
    /\ lastOp = [op |-> "init"]
    /\ cache = EmptyDict
    /\ content = InitContent

InitChain ==
    /\ \E al \in Aligns : \E rawg \in Catalogs(ChainAddrs, ChainPool(al)) : \E ord \in Perms(DOMAIN rawg) :
          Loaded(al, rawg, ord)
    /\ lastOp = [op |-> "init"]
    /\ cache = EmptyDict
    /\ content = InitContent

InitCache ==
    /\ Loaded(4, EmptyDict, <<>>)
    /\ lastOp = [op |-> "init"]
    /\ cache = EmptyDict
    /\ content = InitContent

(***************************************************************************)
(* Actions.                                                                *)
(***************************************************************************)
Search(move, regs) ==
    /\ found' = search(gadgets, order, align, move, regs)
    /\ lastOp' = [op |-> "search", move |-> move, regs |-> regs]
    /\ UNCHANGED <<align, gadgets, order, pivots, _chain, address, out, err, cache, content>>

Getattr(parts) ==
    /\ found' = getattr(gadgets, order, align, parts)
    /\ lastOp' = [op |-> "getattr", parts |-> parts]
    /\ UNCHANGED <<align, gadgets, order, pivots, _chain, address, out, err, cache, content>>

Call(resolvable, arguments) ==
    /\ Len(_chain) < MaxCalls
    /\ LET r == call(_chain, pivots, align, resolvable, arguments)
       IN  /\ _chain' = r.chain
           /\ err' = r.err
    /\ out' = <<>>
    /\ lastOp' = [op |-> "call", resolvable |-> resolvable, args |-> arguments]
    /\ UNCHANGED <<align, gadgets, order, pivots, address, found, cache, content>>

Raw(data) ==
    /\ Len(_chain) + Len(group(align, data, FillByte)) <= MaxCalls
    /\ LET r == raw(_chain, pivots, align, data)
       IN  /\ _chain' = r.chain
           /\ err' = r.err
    /\ out' = <<>>
    /\ lastOp' = [op |-> "raw", data |-> data]
    /\ UNCHANGED <<align, gadgets, order, pivots, address, found, cache, content>>

SetAddress(a) ==
    /\ address' = a
    /\ out' = <<>>
    /\ err' = ""
    /\ lastOp' = [op |-> "set_address", address |-> a]
    /\ UNCHANGED <<align, gadgets, order, pivots, _chain, found, cache, content>>

Clear ==
    /\ _chain' = <<>>
    /\ address' = 0
    /\ out' = <<>>
    /\ err' = ""
    /\ lastOp' = [op |-> "clear"]
    /\ UNCHANGED <<align, gadgets, order, pivots, found, cache, content>>

Chain ==
    /\ LET r == chain(_chain, address, align)
       IN  /\ _chain' = r.self
           /\ out' = r.out
           /\ err' = r.err
    /\ lastOp' = [op |-> "chain"]
    /\ UNCHANGED <<align, gadgets, order, pivots, address, found, cache, content>>

FlushClearsAlways(r, addr) == [chain |-> <<>>, address |-> 0]

\* flush: self.clear() runs only when self.chain() returned
FlushEffect(r, addr) ==
    IF r.err # "" THEN [chain |-> r.self, address |-> addr]
    ELSE [chain |-> <<>>, address |-> 0]

Flush ==
    /\ LET r == chain(_chain, address, align)
       IN  /\ _chain' = FlushEffect(r, address).chain
           /\ address' = FlushEffect(r, address).address
           /\ out' = r.out
           /\ err' = r.err
    /\ lastOp' = [op |-> "flush"]
    /\ UNCHANGED <<align, gadgets, order, pivots, found, cache, content>>

\* ROP(elfs): __init__ with __load
NewROP(es) ==
    /\ LET l == LoadElfs(es, cache, content)
       IN  /\ cache' = l.files
           /\ gadgets' = Classify(l.gadgets, AlignOf(es))
           /\ \E ord \in Perms(DOMAIN l.gadgets) :
                 /\ order' = ord
                 /\ pivots' = BuildPivots(Classify(l.gadgets, AlignOf(es)), ord)
           /\ lastOp' = [op |-> "load", elfs |-> es, mined |-> l.mined, saved |-> l.saved]
    /\ align' = AlignOf(es)
    /\ _chain' = <<>>
    /\ address' = 0
    /\ UNCHANGED <<found, out, err, content>>

\* the bytes of a binary change: its digest is another one
ModifyBinary(b) ==
    /\ content[b] < MaxContent
    /\ content' = [content EXCEPT ![b] = @ + 1]
    /\ lastOp' = [op |-> "modify", binary |-> b]
    /\ UNCHANGED <<align, gadgets, order, pivots, _chain, address, found, out, err, cache>>

NextSearch ==
    \/ \E move \in SearchMoves : \E regs \in SearchRegs(align) : Search(move, regs)
    \/ \E parts \in AttrParts(align) : Getattr(parts)

NextChain ==
    \/ \E resolvable \in Resolvables : \E arguments \in ArgLists : Call(resolvable, arguments)
    \/ \E data \in RawData : Raw(data)
    \/ \E a \in BaseAddrs : SetAddress(a)
    \/ Clear
    \/ Chain
    \/ Flush

NextCache ==
    \/ \E es \in ElfLists : NewROP(es)
    \/ \E b \in Binaries : ModifyBinary(b)

SpecSearch == InitSearch /\ [][NextSearch]_vars

SpecChain == InitChain /\ [][NextChain]_vars

SpecCache == InitCache /\ [][NextCache]_vars

(***************************************************************************)
(* Properties of the search.                                               *)
(***************************************************************************)
\* the gadgets that write exactly regs, in that order, and move by minDelta or more
EligibleExact(minDelta, regs) ==
    {a \in DOMAIN gadgets : gadgets[a].regs = regs /\ gadgets[a].move >= minDelta}

\* the gadgets that move by minDelta or more, whatever they write
EligibleAnyRegs(minDelta) == {a \in DOMAIN gadgets : gadgets[a].move >= minDelta}

\* found is absent exactly when E is empty, and is otherwise a gadget of E of
\* the smallest displacement in E
BestOf(E) ==
    /\ found = None <=> E = {}
    /\ found # None =>
          /\ found[1] \in E
          /\ found[2] = gadgets[found[1]]
          /\ \A a \in E : found[2].move <= gadgets[a].move

C8_RetShorthand ==
    (lastOp.op = "getattr" /\ lastOp.parts[1] = "ret") =>
        found = search(gadgets, order, align,
                       IF Len(lastOp.parts) > 1 THEN lastOp.parts[2] ELSE align, <<>>)

(***************************************************************************)
(* Properties of the call list and of the encoder.                         *)
(***************************************************************************)
HasArgs(r) == Len(r.args) # 0

\* some call of the list has a non-integer argument
HasBlobCall(c) == \E k \in DOMAIN c : \E j \in DOMAIN c[k].args : c[k].args[j].kind = "blob"

\* the last call has no arguments and the one before it has some
SpliceCase(c) == Len(c) >= 2 /\ ~HasArgs(c[Len(c)]) /\ HasArgs(c[Len(c) - 1])

\* filler words that cover pad bytes
FillerWords(pad) == IF pad <= 0 THEN 0 ELSE (pad + align - 1) \div align

\* C1: chain() leaves the call list and the base address as they were, and a
\* second chain() right after the first returns what the first returned.
C1_ChainReadOnly ==
    [][lastOp'.op = "chain" =>
          /\ _chain' = _chain
          /\ address' = address
          /\ lastOp.op = "chain" => (out' = out /\ err' = err)]_vars

\* chain() has encoded a list whose last two records were spliced
C1_Witness == lastOp.op = "chain" /\ err = "" /\ SpliceCase(_chain) /\ _chain[Len(_chain) - 1].pad > 0

\* C2: the bytes chain() returns are a whole number of machine words.
C2_LengthMultipleOfWord ==
    (lastOp.op \in {"chain", "flush"} /\ err = "") => Len(out) % align = 0

\* an encoded list with a deferred argument and a fixup whose padding is not
\* a whole number of words
C2_Witness ==
    /\ lastOp.op = "chain"
    /\ err = ""
    /\ HasBlobCall(_chain)
    /\ Len(_chain) >= 2
    /\ HasArgs(_chain[1])
    /\ _chain[1].pad % align # 0
    /\ Len(out) > 0

\* C5: a call with arguments and a resolvable target appends one record with
\* the smallest sufficient pivot, its address and the padding that remains,
\* or fails with NoStackFixupGadget when no pivot is large enough; it fails
\* so in that case only, and a failed call leaves the list as it was.
C5_CallPicksSmallestPivot ==
    [][lastOp'.op = "call" =>
          LET args == lastOp'.args
              need == (1 + Len(args)) * align
              big == {s \in DOMAIN pivots : s >= need}
              n == Len(_chain)
          IN  /\ (Len(args) > 0 /\ resolve(lastOp'.resolvable) # None /\ big # {}) =>
                    /\ err' = ""
                    /\ Len(_chain') = n + 1
                    /\ SubSeq(_chain', 1, n) = _chain
                    /\ _chain'[n + 1].addr = resolve(lastOp'.resolvable)[1]
                    /\ _chain'[n + 1].args = args
                    /\ _chain'[n + 1].retsize \in big
                    /\ \A s \in big : _chain'[n + 1].retsize <= s
                    /\ _chain'[n + 1].retaddr = pivots[_chain'[n + 1].retsize]
                    /\ _chain'[n + 1].pad = _chain'[n + 1].retsize - need
                    /\ _chain'[n + 1].pad >= 0
              /\ (Len(args) > 0 /\ resolve(lastOp'.resolvable) # None /\ big = {}) =>
                    err' = "NoStackFixupGadget"
              /\ err' = "NoStackFixupGadget" =>
                    (Len(args) > 0 /\ resolve(lastOp'.resolvable) # None /\ big = {})
              /\ err' = "UnresolvedSymbol" => resolve(lastOp'.resolvable) = None
              /\ err' # "" => _chain' = _chain]_vars

\* a call was given the smaller of two sufficient pivots, with padding left
C5_Witness ==
    /\ lastOp.op = "call"
    /\ err = ""
    /\ Len(lastOp.args) > 0
    /\ _chain[Len(_chain)].pad > 0
    /\ \E s \in DOMAIN pivots : s > _chain[Len(_chain)].retsize

\* The layout of an output: words, filler words and pointers to deferred data.
WordItem(v) == [k |-> "word", v |-> v, b |-> <<>>]

FillItem == [k |-> "fill", v |-> 0, b |-> <<>>]

BlobItem(b) == [k |-> "blob", v |-> 0, b |-> b]

ArgItems(args) ==
    [j \in DOMAIN args |-> IF args[j].kind = "int" THEN WordItem(args[j].val) ELSE BlobItem(args[j].blob)]

\* a record with its fixup address fix and fillers filler words
RecordItems(r, fix, fillers) ==
    IF ~HasArgs(r) THEN <<WordItem(r.addr)>>
    ELSE <<WordItem(r.addr), WordItem(fix)>> \o ArgItems(r.args) \o [j \in 1..fillers |-> FillItem]

\* records as they were stored by call()
PlainItems(c) == Flatten([k \in DOMAIN c |-> RecordItems(c[k], c[k].retaddr, FillerWords(c[k].pad))])

RECURSIVE DataBefore(_, _)
DataBefore(items, k) ==
    IF k <= 1 THEN 0
    ELSE DataBefore(items, k - 1) + align * Len(items[k - 1].b)

\* the bytes of a layout: its words, then the deferred data in order
LayoutBytes(items) ==
    LET head == Len(items) * align
        word(k) == IF items[k].k = "word" THEN PackBytes(items[k].v, align)
                   ELSE IF items[k].k = "fill" THEN [j \in 1..align |-> PadChar]
                   ELSE PackBytes(address + head + DataBefore(items, k), align)
        data(k) == Flatten([j \in DOMAIN items[k].b |-> PackBytes(items[k].b[j], align)])
    IN  Flatten([k \in DOMAIN items |-> word(k)]) \o Flatten([k \in DOMAIN items |-> data(k)])

\* C6: when the last call has no arguments and the one before it has some,
\* the output ends with the address of the one before, the address of the
\* last, and the arguments, without filler and without a slot of its own for
\* the last call, behind the unchanged encoding of the earlier records; when
\* the last call has arguments its fixup slot is a non-zero sentinel and it
\* gets no filler.
C6_TrailingCallSplice ==
    (lastOp.op = "chain" /\ err = "" /\ Len(_chain) > 0) =>
        LET n == Len(_chain)
        IN  /\ SpliceCase(_chain) =>
                  out = LayoutBytes(PlainItems(SubSeq(_chain, 1, n - 2))
                                    \o RecordItems(_chain[n - 1], _chain[n].addr, 0))
            /\ HasArgs(_chain[n]) =>
                  /\ out = LayoutBytes(PlainItems(SubSeq(_chain, 1, n - 1))
                                       \o RecordItems(_chain[n], DeadBeef, 0))
                  /\ DeadBeef # 0

\* three calls, the first with filler, the last two spliced
C6_Witness ==
    /\ lastOp.op = "chain"
    /\ err = ""
    /\ Len(_chain) = 3
    /\ SpliceCase(_chain)
    /\ HasArgs(_chain[1])
    /\ _chain[1].pad > 0
    /\ _chain[2].pad > 0

\* C7: with a non-integer argument in the list and no base address, chain()
\* fails with MissingBaseAddress and returns nothing, the list and the base
\* address stay as they were, and flush() does not clear the list.
C7_MissingBaseAddress ==
    [][(lastOp'.op \in {"chain", "flush"} /\ HasBlobCall(_chain) /\ address = 0) =>
          /\ err' = "MissingBaseAddress"
          /\ out' = <<>>
          /\ _chain' = _chain
          /\ address' = address]_vars

\* flush() failed for the missing base address and the list is still there
C7_Witness ==
    /\ lastOp.op = "flush"
    /\ err = "MissingBaseAddress"
    /\ HasBlobCall(_chain)
    /\ address = 0

\* the records chain() encodes, with the padding it gives them
Encoded(c) ==
    LET n == Len(c)
    IN  IF HasArgs(c[n]) THEN [c EXCEPT ![n].pad = 0]
        ELSE IF SpliceCase(c) THEN SubSeq([c EXCEPT ![n - 1].pad = 0], 1, n - 1)
        ELSE c

\* words a record takes in the output
HeadWords(r) == IF HasArgs(r) THEN 2 + Len(r.args) + FillerWords(r.pad) ELSE 1

RECURSIVE StartWord(_, _)
StartWord(c, k) == IF k <= 1 THEN 0 ELSE StartWord(c, k - 1) + HeadWords(c[k - 1])

\* the address slot of every encoded record is where StartWord puts it
SlotsHoldAddresses(e) ==
    \A k \in DOMAIN e :
        SubSeq(out, StartWord(e, k) * align + 1, StartWord(e, k) * align + align)
            = PackBytes(e[k].addr, align)

\* C10: for every encoded call with arguments that another encoded call
\* follows, the next call's address slot starts fixupSize - wordSize bytes
\* behind the start of the first argument slot.
C10_FixupLandsOnNextCall ==
    (lastOp.op = "chain" /\ err = "" /\ Len(_chain) > 0) =>
        LET e == Encoded(_chain)
        IN  /\ SlotsHoldAddresses(e)
            /\ \A k \in 1..(Len(e) - 1) :
                  HasArgs(e[k]) =>
                      StartWord(e, k + 1) * align - (StartWord(e, k) + 2) * align
                          = e[k].retsize - align

(***************************************************************************)
(* Properties of the cache.                                                *)
(***************************************************************************)
\* C9: a load of a binary whose cache entry exists neither mines the binary
\* nor writes the entry again.
C9_CacheHitSkipsMining ==
    [][lastOp'.op = "load" =>
          \A k \in DOMAIN lastOp'.elfs :
              CacheKey(lastOp'.elfs[k], content) \in DOMAIN cache =>
                  /\ lastOp'.elfs[k] \notin SeqToSet(lastOp'.mined)
                  /\ lastOp'.elfs[k] \notin SeqToSet(lastOp'.saved)]_vars

====
